---------------------------- MODULE Spec2Model ----------------------------
(***************************************************************************)
(* Grouped pagination of restui/models/mappings.py:                        *)
(*   MappingQuerySet      (normalized form: mapping -> mapping_history ->  *)
(*                         release_mapping_history)                        *)
(*   MappingViewQuerySet  (denormalized form: mapping_view)                *)
(* The storage tables are the inputs; a query-set instance holds the       *)
(* memoized _counts attribute; grouped_count and grouped_slice are the     *)
(* operations.  The Django QuerySet behaviour the two classes inherit      *)
(* (lazy evaluation, the result cache filled by len(), slicing of an       *)
(* evaluated or of an unevaluated query set, LEFT OUTER JOIN over the      *)
(* reverse relation, COUNT(column) skipping NULL) is modelled at the       *)
(* places where the source relies on it.                                   *)
(* The facet methods of the two query sets (statuses, species, divergences,*)
(* chromosomes, types, has_patches) read the facet columns of the same     *)
(* rows, and the class-level vocabulary caches of Mapping and MappingView  *)
(* (_entry_type, _status_type) are filled from CvEntryType and CvUeStatus. *)
(* The handlers of restui/views/unmapped.py (labels, comments and status   *)
(* of an unmapped entry) run as concurrent requests; a request is at one   *)
(* of its database statements.                                             *)
(***************************************************************************)
EXTENDS Integers, Sequences, FiniteSets, TLC

\* ------------------------------------------------------------------ bounds
\* rows of the mapping_history table
MaxHist == 2
\* rows of the mapping_view table
MaxView == 3
\* rows of a table whose alignment_difference column varies
MaxRows == 5
\* rows of a table in which another facet column varies
MaxOther == 3

\* primary keys of the mapping table
MappingIds == {1, 2}
\* non-null values of grouping_id
GroupingIds == {1, 2}
\* primary keys of release_mapping_history, their species and mapping times
ReleaseIds == {1, 2}
TaxIds == {1, 2}
Times == {1, 2}
\* arguments of grouped_slice
Offsets == {0, 1, 2}
Limits == {0, 1, 2}
\* query-set instances: 1 is objects.all(), 2 is objects.filter(pk=1)
Instances == {1, 2}

\* grouping_id = models.BigIntegerField(blank=True, null=True): SQL NULL / None
NULL == 0

\* the model classes that hold the vocabulary caches
ModelClasses == {"Mapping", "MappingView"}
\* primary keys of the vocabulary tables, the identities looked up and the
\* descriptions
VocabIds == {1}
Identities == {1, 2}
Descriptions == {"a", "b"}

\* records of the UeUnmappedEntryLabel table
MaxLabels == 3
\* readings of the clock
MaxTime == 3
\* requests in flight at one time
Requests == {1, 2}
\* the mapping_view_id of a request; no row has the last
ViewIds == {1, 2, 3}
\* primary keys of UniprotEntry; no row has the last
UniprotIds == {1, 2}
\* the label_id of a request
LabelIds == {1, 2}
\* records of the UeUnmappedEntryComment table
MaxComments == 2
\* status records of the mappings
MaxStatuses == 2
\* the comment_id of a request
CommentIds == {1, 2}
\* the 'text' of a request
Texts == {"a", "b"}

MappingQuerySetCls == "MappingQuerySet"
MappingViewQuerySetCls == "MappingViewQuerySet"

VARIABLES
    mapping,                  \* the mapping table: the set of mapping_id present
    mapping_history,          \* the mapping_history table, in physical order
    release_mapping_history,  \* release_mapping_history_id -> row
    mapping_view,             \* the mapping_view table: grouping_id by row id
    fields,                   \* the facet columns of each row, by primary key
    ensembl_species_history,  \* the ensembl_species_history table
    cv_entry_type,            \* the CvEntryType table: id -> description
    cv_ue_status,             \* the CvUeStatus table: id -> description
    entry_type_,              \* the _entry_type attribute of each model class
    status_type_,             \* the _status_type attribute of each model class
    nullsLargest,             \* the backend sorts NULL after every value
    cls,                      \* the class of each query-set instance
    counts_,                  \* the _counts attribute of each instance
    evaluated,                \* the instance's counts query has hit storage
    last,                     \* the most recent call and what it returned
    uniprot_entry,            \* the UniprotEntry table: the set of uniprot_id
    ue_unmapped_entry_label,  \* the UeUnmappedEntryLabel table, by insertion
    ue_unmapped_entry_comment,\* the UeUnmappedEntryComment table: id -> row
    ue_unmapped_entry_status, \* the UeUnmappedEntryStatus table, by insertion
    now,                      \* the clock timezone.now() reads
    pc,                       \* where each request is in its handler
    response,                 \* the most recent response sent
    status_history            \* the status records of the mappings

vars == <<mapping, mapping_history, release_mapping_history, mapping_view,
          fields, ensembl_species_history, cv_entry_type, cv_ue_status,
          entry_type_, status_type_,
          nullsLargest, cls, counts_, evaluated, last,
          uniprot_entry, ue_unmapped_entry_label, ue_unmapped_entry_comment,
          ue_unmapped_entry_status, now, pc, response, status_history>>

\* the tables and the requests of restui/views/unmapped.py
annotations == <<uniprot_entry, ue_unmapped_entry_label,
                 ue_unmapped_entry_comment, ue_unmapped_entry_status, now, pc,
                 response>>

storage == <<mapping, mapping_history, release_mapping_history, mapping_view,
             fields, ensembl_species_history, cv_entry_type, cv_ue_status,
             entry_type_, status_type_, nullsLargest, cls, annotations,
             status_history>>

\* ----------------------------------------------------------------- helpers
Min(a, b) == IF a < b THEN a ELSE b

\* s[a:b] of Python for 0 <= a, 0 <= b
PySlice(s, a, b) == SubSeq(s, a + 1, Min(b, Len(s)))

RECURSIVE SumTotal(_)
\* sum(int(row['total']) for row in rows)
SumTotal(rows) ==
    IF rows = <<>> THEN 0 ELSE Head(rows).total + SumTotal(Tail(rows))

RECURSIVE Ascending(_)
\* the values of a set of integers in ascending order
Ascending(S) ==
    IF S = {} THEN <<>>
    ELSE LET m == CHOOSE x \in S : \A y \in S : x <= y
         IN <<m>> \o Ascending(S \ {m})

RECURSIVE Reverse(_)
Reverse(s) == IF s = <<>> THEN <<>> ELSE Reverse(Tail(s)) \o <<Head(s)>>

\* ORDER BY grouping_id ASC: where NULL sorts is the backend's choice
KeysAscending ==
    IF nullsLargest THEN Ascending(GroupingIds) \o <<NULL>>
    ELSE <<NULL>> \o Ascending(GroupingIds)

\* ORDER BY grouping_id DESC
KeysDescending == Reverse(KeysAscending)

RECURSIVE OrderBy(_, _)
\* rows ordered by grouping_id along keys; rows of equal key keep scan order
OrderBy(rows, keys) ==
    IF keys = <<>> THEN <<>>
    ELSE SelectSeq(rows, LAMBDA r : r.grouping_id = Head(keys))
         \o OrderBy(rows, Tail(keys))

\* the rows a filter(pk=...) predicate keeps; instance 1 keeps every row
Filter(q, pk) == q = 1 \/ pk = 1


\* ----------------------------------------------------------------- storage
\* Mapping LEFT OUTER JOIN mapping_history, as values()/order_by() on the
\* reverse relation 'mapping_history__grouping_id' produce it: one row per
\* history entry of a kept mapping, and one NULL row per kept mapping that
\* has no history entry
MappingJoin(q) ==
    LET hist == SelectSeq(mapping_history,
                          LAMBDA h : h.mapping \in mapping /\ Filter(q, h.mapping))
        bare == SelectSeq(Ascending(mapping),
                          LAMBDA m : /\ Filter(q, m)
                                     /\ \A i \in DOMAIN mapping_history :
                                           mapping_history[i].mapping # m)
    IN [i \in 1..Len(hist) |->
           [mapping_id |-> hist[i].mapping, grouping_id |-> hist[i].grouping_id]]
       \o [i \in 1..Len(bare) |-> [mapping_id |-> bare[i], grouping_id |-> NULL]]

\* the rows of mapping_view an instance's predicate keeps
ViewRows(q) ==
    SelectSeq([i \in 1..Len(mapping_view) |->
                  [id |-> i, grouping_id |-> mapping_view[i]]],
              LAMBDA r : Filter(q, r.id))

\* one entry per row instead of one per key
GroupKeysPerRow(rows, keys) ==
    LET o == OrderBy(rows, keys) IN [i \in DOMAIN o |-> o[i].grouping_id]

\* the groups of rows, in the order of keys
GroupKeys(rows, keys) ==
    SelectSeq(keys, LAMBDA k : \E i \in DOMAIN rows : rows[i].grouping_id = k)

\* Count('mapping_history__grouping_id'): COUNT(column) counts the rows of
\* the group whose column is not NULL
CountColumn(rows, k) ==
    Len(SelectSeq(rows, LAMBDA r : r.grouping_id = k /\ r.grouping_id # NULL))

\* Count(Case(When(grouping_id__isnull=True, then=1), default=1)): the
\* counted expression is 1 on every row
CountCase(rows, k) ==
    Len(SelectSeq(rows, LAMBDA r : r.grouping_id = k /\ 1 # NULL))

\* MappingQuerySet: values(...).annotate(total=Count(...)).order_by(...)
\* evaluated against storage
MappingCountsQuery(q) ==
    LET rows == MappingJoin(q)
        ks == GroupKeys(rows, KeysAscending)
    IN [i \in 1..Len(ks) |->
           [grouping_id |-> ks[i], total |-> CountColumn(rows, ks[i])]]

\* MappingViewQuerySet: the same query ordered by '-grouping_id'
ViewCountsQuery(q) ==
    LET rows == ViewRows(q)
        ks == GroupKeys(rows, KeysDescending)
    IN [i \in 1..Len(ks) |->
           [grouping_id |-> ks[i], total |-> CountCase(rows, ks[i])]]

\* ------------------------------------------------------- the _counts memo
\* _counts = None (class attribute, never assigned on the class)
Unset == [set |-> FALSE, fetched |-> FALSE, rows |-> <<>>]

\* _counts assigned on the class: every instance reads the same attribute
SlotOfClass(q) == 1

\* the object whose attribute dictionary holds _counts: self
Slot(q) == q

\* the memo holds a one-shot iterator: a second access finds it consumed
GroupedCountsConsumed(c) ==
    IF c.set THEN [c EXCEPT !.fetched = TRUE, !.rows = <<>>]
    ELSE [c EXCEPT !.set = TRUE]

\* grouped_counts(): the first call stores the unevaluated query set
GroupedCounts(c) == IF c.set THEN c ELSE [c EXCEPT !.set = TRUE]

\* len(counts): QuerySet.__len__ fills the result cache of an unevaluated
\* query set from storage and keeps it
FetchAll(c, query) ==
    IF c.fetched THEN c ELSE [c EXCEPT !.fetched = TRUE, !.rows = query]

\* counts[a:b]: a slice of the result cache when there is one, else a new
\* LIMIT/OFFSET query against storage whose rows are not kept
CountsSlice(c, query, a, b) ==
    IF c.fetched THEN PySlice(c.rows, a, b) ELSE PySlice(query, a, b)

\* the number of queries against storage counts[a:b] issues
SliceQueries(c, a, b) == IF c.fetched \/ a = b THEN 0 ELSE 1

\* the group offset taken as a row offset
QsOffsetInRows(c, query, offset) == offset

\* qs_offset of grouped_slice
QsOffset(c, query, offset) ==
    IF offset = 0 THEN 0 ELSE SumTotal(CountsSlice(c, query, 0, offset))

\* the page taken from the first entry instead of from offset
QsLimitFromStart(c, query, offset, limit) ==
    SumTotal(CountsSlice(c, query, 0, offset + limit))

\* qs_limit of grouped_slice
QsLimit(c, query, offset, limit) ==
    SumTotal(CountsSlice(c, query, offset, offset + limit))

\* --------------------------------------------- MappingQuerySet.grouped_slice
\* the mapping_history entries of a mapping (result.mapping_history)
HistoryOf(m) == {i \in DOMAIN mapping_history : mapping_history[i].mapping = m}

TimeMapped(i) ==
    release_mapping_history[mapping_history[i].release_mapping_history].time_mapped

\* result.mapping_history.latest('release_mapping_history__time_mapped')
Latest(m) ==
    CHOOSE i \in HistoryOf(m) :
        \A j \in HistoryOf(m) : TimeMapped(j) <= TimeMapped(i)

\* ReleaseMappingHistory.objects.filter(uniprot_taxid=...).latest('time_mapped')
SpeciesLatest(taxid) ==
    CHOOSE r \in ReleaseIds :
        /\ release_mapping_history[r].uniprot_taxid = taxid
        /\ \A s \in ReleaseIds :
              release_mapping_history[s].uniprot_taxid = taxid
                  => release_mapping_history[s].time_mapped
                         <= release_mapping_history[r].time_mapped

\* the comparison with the species' latest release left out
EligibleUnchecked(m) == TRUE

\* result_rmh != species_latest_rmh is false: model instances compare by pk
Eligible(m) ==
    LET result_rmh == mapping_history[Latest(m)].release_mapping_history
        result_species == release_mapping_history[result_rmh].uniprot_taxid
    IN result_rmh = SpeciesLatest(result_species)

\* grouped_results = {} ; grouped_results_added = defaultdict(set)
NoGroups == <<>>
NoneAdded == [k \in GroupingIds \cup {NULL} |-> {}]

\* the keys of an insertion-ordered dict
KeysOf(groups) == [i \in 1..Len(groups) |-> groups[i].key]

\* the except branch creates the list without the element that raised
AppendOrCreateEmpty(groups, key, x) ==
    IF \E i \in DOMAIN groups : groups[i].key = key
    THEN [i \in DOMAIN groups |->
             IF groups[i].key = key
             THEN [groups[i] EXCEPT !.rows = Append(@, x)]
             ELSE groups[i]]
    ELSE Append(groups, [key |-> key, rows |-> <<>>])

\* the assignment of the except branch taken on every row
AppendOrCreateReplace(groups, key, x) ==
    IF \E i \in DOMAIN groups : groups[i].key = key
    THEN [i \in DOMAIN groups |->
             IF groups[i].key = key
             THEN [groups[i] EXCEPT !.rows = <<x>>]
             ELSE groups[i]]
    ELSE Append(groups, [key |-> key, rows |-> <<x>>])

\* try: grouped_results[key].append(x)
\* except (KeyError, AttributeError): grouped_results[key] = [x]
AppendOrCreate(groups, key, x) ==
    IF \E i \in DOMAIN groups : groups[i].key = key
    THEN [i \in DOMAIN groups |->
             IF groups[i].key = key
             THEN [groups[i] EXCEPT !.rows = Append(@, x)]
             ELSE groups[i]]
    ELSE Append(groups, [key |-> key, rows |-> <<x>>])

\* the check against grouped_results_added left out
AlreadyAddedNever(added, grouping_id, m) == FALSE

\* result.mapping_id in grouped_results_added[grouping_id]
AlreadyAdded(added, grouping_id, m) == m \in added[grouping_id]

\* a lookup that finds no entry answers a null key and an eligible row
LatestOrDefault(m) ==
    IF HistoryOf(m) = {}
    THEN [raised |-> FALSE, grouping_id |-> NULL, eligible |-> TRUE]
    ELSE [raised |-> FALSE,
          grouping_id |-> mapping_history[Latest(m)].grouping_id,
          eligible |-> Eligible(m)]

\* the latest() lookups of one iteration: QuerySet.latest() raises
\* DoesNotExist when the mapping has no history entry, and nothing in
\* grouped_slice catches it
LatestOrRaise(m) ==
    IF HistoryOf(m) = {}
    THEN [raised |-> TRUE, grouping_id |-> NULL, eligible |-> FALSE]
    ELSE [raised |-> FALSE,
          grouping_id |-> mapping_history[Latest(m)].grouping_id,
          eligible |-> Eligible(m)]

RECURSIVE MappingLoop(_, _)
\* for result in sub_qs: ... ; an exception of latest() ends the loop and
\* leaves grouped_slice
MappingLoop(rows, acc) ==
    IF rows = <<>> \/ acc.raised THEN acc
    ELSE LET m == Head(rows).mapping_id
             found == LatestOrRaise(m)
         IN IF found.raised
            THEN [acc EXCEPT !.raised = TRUE]
            ELSE IF AlreadyAdded(acc.added, found.grouping_id, m)
            THEN MappingLoop(Tail(rows), acc)
            ELSE IF ~found.eligible
            THEN MappingLoop(Tail(rows), acc)
            ELSE MappingLoop(Tail(rows),
                    [acc EXCEPT
                       !.groups = AppendOrCreate(@, found.grouping_id, m),
                       !.added[found.grouping_id] = @ \cup {m}])

\* self.select_related(...).order_by('mapping_history__grouping_id')
MappingOrdered(q) == OrderBy(MappingJoin(q), KeysAscending)

\* the body of MappingQuerySet.grouped_slice after counts = grouped_counts()
MappingSlice(q, c, offset, limit) ==
    LET query == MappingCountsQuery(q)
        qs_offset == QsOffset(c, query, offset)
        qs_limit == QsLimit(c, query, offset, limit)
        sub_qs == PySlice(MappingOrdered(q), qs_offset, qs_offset + qs_limit)
        out == MappingLoop(sub_qs,
                  [groups |-> NoGroups, added |-> NoneAdded, raised |-> FALSE])
    IN [qs_offset |-> qs_offset, qs_limit |-> qs_limit,
        fetched |-> [i \in 1..Len(sub_qs) |-> sub_qs[i].mapping_id],
        groups |-> IF out.raised THEN NoGroups ELSE out.groups,
        raised |-> out.raised]

\* ----------------------------------------- MappingViewQuerySet.grouped_slice
RECURSIVE ViewLoop(_, _)
\* for result in sub_qs: append to the list of result.grouping_id
ViewLoop(rows, groups) ==
    IF rows = <<>> THEN groups
    ELSE ViewLoop(Tail(rows),
                  AppendOrCreate(groups, Head(rows).grouping_id, Head(rows).id))

\* self.order_by('-grouping_id')
ViewOrdered(q) == OrderBy(ViewRows(q), KeysDescending)

\* the body of MappingViewQuerySet.grouped_slice after counts = grouped_counts()
ViewSlice(q, c, offset, limit) ==
    LET query == ViewCountsQuery(q)
        qs_offset == QsOffset(c, query, offset)
        qs_limit == QsLimit(c, query, offset, limit)
        sub_qs == PySlice(ViewOrdered(q), qs_offset, qs_offset + qs_limit)
    IN [qs_offset |-> qs_offset, qs_limit |-> qs_limit,
        fetched |-> [i \in 1..Len(sub_qs) |-> sub_qs[i].id],
        groups |-> ViewLoop(sub_qs, NoGroups),
        raised |-> FALSE]

\* -------------------------------------------------------------- the calls
NoCall ==
    [n |-> 0, op |-> "none", q |-> 0, offset |-> 0, limit |-> 0, count |-> 0,
     groups |-> <<>>, raised |-> FALSE, qs_offset |-> 0, qs_limit |-> 0,
     fetched |-> <<>>, nq |-> 0, again |-> FALSE,
     result |-> <<>>, patches |-> FALSE, identity |-> 0]

\* the same operation on the same instance with the same arguments
SameCall(a, b) ==
    a.op = b.op /\ a.q = b.q /\ a.offset = b.offset /\ a.limit = b.limit

\* a call is recorded with its number (1: the first call, 2: a later one)
\* and with whether it repeats the call before it
Record(call) ==
    /\ last' = [call EXCEPT !.n = IF last.n = 0 THEN 1 ELSE 2,
                            !.again = SameCall(call, last)]
    /\ evaluated' = [evaluated EXCEPT ![call.q] = @ \/ call.nq > 0]

\* the class's counts query for an instance
CountsQuery(q) ==
    IF cls[q] = MappingQuerySetCls THEN MappingCountsQuery(q)
    ELSE ViewCountsQuery(q)

\* grouped_count: len(self.grouped_counts())
CountCall(q) ==
    LET c == GroupedCounts(counts_[Slot(q)])
        f == FetchAll(c, CountsQuery(q))
    IN /\ counts_' = [counts_ EXCEPT ![Slot(q)] = f]
       /\ Record([NoCall EXCEPT !.op = "grouped_count", !.q = q,
                                !.count = Len(f.rows),
                                !.nq = IF c.fetched THEN 0 ELSE 1])
       /\ UNCHANGED storage

\* grouped_slice(offset, limit) with the class's body
SliceCall(q, offset, limit, body) ==
    LET c == GroupedCounts(counts_[Slot(q)])
    IN /\ counts_' = [counts_ EXCEPT ![Slot(q)] = c]
       /\ Record([NoCall EXCEPT !.op = "grouped_slice", !.q = q,
                                !.offset = offset, !.limit = limit,
                                !.groups = body.groups, !.raised = body.raised,
                                !.qs_offset = body.qs_offset,
                                !.qs_limit = body.qs_limit,
                                !.fetched = body.fetched,
                                !.nq = (IF offset = 0 THEN 0
                                        ELSE SliceQueries(c, 0, offset))
                                       + SliceQueries(c, offset, offset + limit)])
       /\ UNCHANGED storage

MappingGroupedCount(q) ==
    /\ cls[q] = MappingQuerySetCls
    /\ CountCall(q)

MappingGroupedSlice(q, offset, limit) ==
    /\ cls[q] = MappingQuerySetCls
    /\ SliceCall(q, offset, limit,
                 MappingSlice(q, GroupedCounts(counts_[Slot(q)]), offset, limit))

ViewGroupedCount(q) ==
    /\ cls[q] = MappingViewQuerySetCls
    /\ CountCall(q)

ViewGroupedSlice(q, offset, limit) ==
    /\ cls[q] = MappingViewQuerySetCls
    /\ SliceCall(q, offset, limit,
                 ViewSlice(q, GroupedCounts(counts_[Slot(q)]), offset, limit))

\* what iterating self.grouped_counts() yields now: the result cache once
\* len() has filled it, else the rows of a fresh evaluation
GroupCount(q) ==
    LET c == counts_[Slot(q)]
    IN IF c.fetched THEN c.rows ELSE CountsQuery(q)

\* what grouped_slice(offset, limit) on instance q returns when called now
SliceNow(q, offset, limit) ==
    LET c == GroupedCounts(counts_[Slot(q)])
    IN IF cls[q] = MappingQuerySetCls THEN MappingSlice(q, c, offset, limit)
       ELSE ViewSlice(q, c, offset, limit)

\* ------------------------------------------------------ aggregation facets
\* a nullable column holds a cell: {} is SQL NULL / None, {v} is the value v
None == {}
Cell(v) == {v}
ValueOf(cell) == CHOOSE v \in cell : TRUE

\* chromosome and mapping-type labels are numbered in the order of their
\* strings; the empty string '' comes first
EmptyLabel == 0

\* the primary keys of the rows an instance's predicate keeps
RowPks(q) ==
    Ascending(IF cls[q] = MappingQuerySetCls
              THEN {m \in mapping : Filter(q, m)}
              ELSE {i \in DOMAIN mapping_view : Filter(q, i)})

\* self.values(column): the column's cell of every row
Values(q, column) ==
    [i \in DOMAIN RowPks(q) |-> fields[RowPks(q)[i]][column]]

\* .distinct()
Distinct(cells) == {cells[i] : i \in DOMAIN cells}

\* the orders in which the backend may return the rows of a query that has
\* no order_by
Orders(S) ==
    {f \in [1..Cardinality(S) -> S] : \A i, j \in DOMAIN f : f[i] = f[j] => i = j}

\* statuses(): the distinct cells of 'status' as the backend returns them
Statuses(q) == Orders(Distinct(Values(q, "status")))

\* types(): the distinct cells of 'uniprot_mapping_status'
Types(q) == Orders(Distinct(Values(q, "uniprot_mapping_status")))

\* self.filter(alignment_difference=0).count(); a comparison with NULL is
\* not true
Identical(q) ==
    LET cells == Values(q, "alignment_difference")
    IN Cardinality({i \in DOMAIN cells : \E v \in cells[i] : v = 0})

\* the upper boundary left out of the bucket
SmallExclusive(q) ==
    LET cells == Values(q, "alignment_difference")
    IN Cardinality({i \in DOMAIN cells : \E v \in cells[i] : v > 0 /\ v < 5})

\* self.filter(alignment_difference__gt=0, alignment_difference__lte=5).count()
Small(q) ==
    LET cells == Values(q, "alignment_difference")
    IN Cardinality({i \in DOMAIN cells : \E v \in cells[i] : v > 0 /\ v <= 5})

\* self.filter(alignment_difference__gt=5).count()
Large(q) ==
    LET cells == Values(q, "alignment_difference")
    IN Cardinality({i \in DOMAIN cells : \E v \in cells[i] : v > 5})

\* divergences(): return [identical, small, large]
Divergences(q) == <<Identical(q), Small(q), Large(q)>>

\* sorted() of a list of labels, as a list of cells
SortedCells(S) ==
    LET a == Ascending({ValueOf(c) : c \in S \ {None}})
    IN [i \in DOMAIN a |-> Cell(a[i])] \o (IF None \in S THEN <<None>> ELSE <<>>)

\* MappingQuerySet.chromosomes(): every distinct cell is appended, None
\* included, and sorted() raises TypeError when it has to compare None with
\* a string
MappingChromosomesOf(q) ==
    LET d == Distinct(Values(q, "chromosome"))
    IN IF None \in d /\ Cardinality(d) >= 2
       THEN [raised |-> TRUE, result |-> <<>>]
       ELSE [raised |-> FALSE, result |-> SortedCells(d)]

\* MappingViewQuerySet.chromosomes(): if pair['chromosome'] keeps the cells
\* that are neither None nor ''
ViewChromosomesOf(q) ==
    LET d == {c \in Distinct(Values(q, "chromosome")) :
                 c # None /\ ValueOf(c) # EmptyLabel}
    IN [raised |-> FALSE, result |-> SortedCells(d)]

\* iregex: the letters of the pattern match either case
Upper(ch) ==
    CASE ch = "c" -> "C" [] ch = "h" -> "H" [] ch = "r" -> "R" [] OTHER -> ch

\* region_accession__iregex=r"^CHR" on a label given as its characters
MatchesCHR(label) ==
    /\ Len(label) >= 3
    /\ Upper(label[1]) = "C" /\ Upper(label[2]) = "H" /\ Upper(label[3]) = "R"

\* has_patches(): self.filter(region_accession__iregex=r"^CHR").count() > 0
HasPatches(q) ==
    LET cells == Values(q, "region_accession")
    IN Cardinality({i \in DOMAIN cells :
                       \E label \in cells[i] : MatchesCHR(label)}) > 0

\* EnsemblSpeciesHistory.objects.filter(ensembl_tax_id=...)
SpeciesEntries(tax) ==
    {e \in DOMAIN ensembl_species_history :
        ensembl_species_history[e].ensembl_tax_id = tax}

\* .latest('time_loaded')
LatestLoaded(tax) ==
    CHOOSE e \in SpeciesEntries(tax) :
        \A f \in SpeciesEntries(tax) :
            ensembl_species_history[f].time_loaded
                <= ensembl_species_history[e].time_loaded

\* the lookup made once before the loop, for the tax id of no row
ViewSpeciesEager(q, order) ==
    IF order = <<>> \/ \E i \in DOMAIN order : SpeciesEntries(order[i]) = {}
    THEN [raised |-> TRUE, result |-> <<>>]
    ELSE [raised |-> FALSE,
          result |-> [i \in DOMAIN order |->
                        <<order[i],
                          Cell(ensembl_species_history[LatestLoaded(order[i])].species)>>]]

\* MappingViewQuerySet.species(): one latest() lookup per distinct
\* uniprot_tax_id; latest() raises DoesNotExist when the tax id has no entry
ViewSpeciesOf(q, order) ==
    IF \E i \in DOMAIN order : SpeciesEntries(order[i]) = {}
    THEN [raised |-> TRUE, result |-> <<>>]
    ELSE [raised |-> FALSE,
          result |-> [i \in DOMAIN order |->
                        <<order[i],
                          Cell(ensembl_species_history[LatestLoaded(order[i])].species)>>]]

\* the (ensembl_tax_id, species) pair the join through
\* transcript -> transcripthistory -> ensembl_species_history gives a row
SpeciesPair(cell) ==
    IF cell = None THEN <<None, None>>
    ELSE <<ensembl_species_history[ValueOf(cell)].ensembl_tax_id,
           Cell(ensembl_species_history[ValueOf(cell)].species)>>

\* MappingQuerySet.species(): the distinct pairs of the join
MappingSpeciesOf(q) ==
    LET cells == Values(q, "ensembl_species_history")
    IN Orders({SpeciesPair(cells[i]) : i \in DOMAIN cells})

\* a facet method returns; it reads storage and leaves _counts alone
FacetCall(q, op, result, raised, patches) ==
    /\ Record([NoCall EXCEPT !.op = op, !.q = q, !.result = result,
                             !.raised = raised, !.patches = patches])
    /\ UNCHANGED <<storage, counts_>>

MappingStatuses(q) ==
    /\ cls[q] = MappingQuerySetCls
    /\ \E order \in Statuses(q) : FacetCall(q, "statuses", order, FALSE, FALSE)

ViewStatuses(q) ==
    /\ cls[q] = MappingViewQuerySetCls
    /\ \E order \in Statuses(q) : FacetCall(q, "statuses", order, FALSE, FALSE)

MappingSpecies(q) ==
    /\ cls[q] = MappingQuerySetCls
    /\ \E order \in MappingSpeciesOf(q) :
          FacetCall(q, "species", order, FALSE, FALSE)

ViewSpecies(q) ==
    /\ cls[q] = MappingViewQuerySetCls
    /\ \E order \in Orders(Distinct(Values(q, "uniprot_tax_id"))) :
          FacetCall(q, "species", ViewSpeciesOf(q, order).result,
                    ViewSpeciesOf(q, order).raised, FALSE)

MappingDivergences(q) ==
    /\ cls[q] = MappingQuerySetCls
    /\ FacetCall(q, "divergences", Divergences(q), FALSE, FALSE)

ViewDivergences(q) ==
    /\ cls[q] = MappingViewQuerySetCls
    /\ FacetCall(q, "divergences", Divergences(q), FALSE, FALSE)

MappingChromosomes(q) ==
    /\ cls[q] = MappingQuerySetCls
    /\ FacetCall(q, "chromosomes", MappingChromosomesOf(q).result,
                 MappingChromosomesOf(q).raised, FALSE)

ViewChromosomes(q) ==
    /\ cls[q] = MappingViewQuerySetCls
    /\ FacetCall(q, "chromosomes", ViewChromosomesOf(q).result,
                 ViewChromosomesOf(q).raised, FALSE)

ViewTypes(q) ==
    /\ cls[q] = MappingViewQuerySetCls
    /\ \E order \in Types(q) : FacetCall(q, "types", order, FALSE, FALSE)

ViewHasPatches(q) ==
    /\ cls[q] = MappingViewQuerySetCls
    /\ FacetCall(q, "has_patches", <<>>, FALSE, HasPatches(q))

\* -------------------------------------------------------- vocabulary caches
\* everything but the vocabulary tables, their caches and the last call
rowsets == <<mapping, mapping_history, release_mapping_history, mapping_view,
             fields, ensembl_species_history, nullsLargest, cls, counts_,
             evaluated, annotations, status_history>>

\* for entry in CvEntryType.objects.all(): entries[entry.id] = entry.description
ReadAll(table) == [id \in DOMAIN table |-> table[id]]

\* if not cls._entry_type: ... cls._entry_type = entries
\* an empty dict is falsy, a filled one is kept as it is
Populate(cache, table) == IF DOMAIN cache = {} THEN ReadAll(table) ELSE cache

\* a lookup returns, or raises KeyError
VocabReturn(op, identity, cache, catches) ==
    last' = [NoCall EXCEPT
               !.n = IF last.n = 0 THEN 1 ELSE 2,
               !.again = last.op = op /\ last.identity = identity,
               !.op = op, !.identity = identity,
               !.raised = identity \notin DOMAIN cache /\ ~catches,
               !.result = IF identity \in DOMAIN cache
                          THEN <<Cell(cache[identity])>>
                          ELSE IF catches THEN <<None>> ELSE <<>>]

\* Mapping.entry_type(identity): return cls._entry_type[identity]
MappingEntryType(identity) ==
    LET cache == Populate(entry_type_["Mapping"], cv_entry_type)
    IN /\ entry_type_' = [entry_type_ EXCEPT !["Mapping"] = cache]
       /\ VocabReturn("entry_type", identity, cache, FALSE)
       /\ UNCHANGED <<rowsets, cv_entry_type, cv_ue_status, status_type_>>

\* Mapping.status_type(identity): return cls._status_type[identity]
MappingStatusType(identity) ==
    LET cache == Populate(status_type_["Mapping"], cv_ue_status)
    IN /\ status_type_' = [status_type_ EXCEPT !["Mapping"] = cache]
       /\ VocabReturn("status_type", identity, cache, FALSE)
       /\ UNCHANGED <<rowsets, cv_entry_type, cv_ue_status, entry_type_>>

\* MappingView.entry_description(identity): a KeyError is caught and None
\* is returned
ViewEntryDescription(identity) ==
    LET cache == Populate(entry_type_["MappingView"], cv_entry_type)
    IN /\ entry_type_' = [entry_type_ EXCEPT !["MappingView"] = cache]
       /\ VocabReturn("entry_description", identity, cache, TRUE)
       /\ UNCHANGED <<rowsets, cv_entry_type, cv_ue_status, status_type_>>

\* MappingView.status_description(identity)
ViewStatusDescription(identity) ==
    LET cache == Populate(status_type_["MappingView"], cv_ue_status)
    IN /\ status_type_' = [status_type_ EXCEPT !["MappingView"] = cache]
       /\ VocabReturn("status_description", identity, cache, TRUE)
       /\ UNCHANGED <<rowsets, cv_entry_type, cv_ue_status, entry_type_>>

\* a row of a vocabulary table is inserted or its description updated
SetDescription(table, id, description) ==
    [i \in DOMAIN table \cup {id} |-> IF i = id THEN description ELSE table[i]]

\* the CvEntryType table changes, outside this program
ChangeCvEntryType(id, description) ==
    /\ cv_entry_type' = SetDescription(cv_entry_type, id, description)
    /\ cv_entry_type' # cv_entry_type
    /\ UNCHANGED <<rowsets, cv_ue_status, entry_type_, status_type_, last>>

\* the CvUeStatus table changes, outside this program
ChangeCvUeStatus(id, description) ==
    /\ cv_ue_status' = SetDescription(cv_ue_status, id, description)
    /\ cv_ue_status' # cv_ue_status
    /\ UNCHANGED <<rowsets, cv_entry_type, entry_type_, status_type_, last>>

\* ------------------------------------- Mapping.statuses, MappingView.statuses
\* mapping.status_history.order_by('time_stamp'): the status records of a
\* mapping, earliest first
StatusSet(mapping_id) ==
    LET rows == {status_history[i] : i \in {j \in DOMAIN status_history :
                    status_history[j].mapping = mapping_id}}
        stamps == Ascending({row.time_stamp : row \in rows})
    IN [i \in DOMAIN stamps |->
          CHOOSE row \in rows : row.time_stamp = stamps[i]]

\* user = status.user_stamp.full_name if usernames and status.user_stamp,
\* else None; users are numbered by their full names
UserOf(status, usernames) ==
    IF usernames /\ status.user_stamp # None THEN status.user_stamp ELSE None

\* the classes that define the class method status_type: Mapping does,
\* MappingView defines status_description only
HasStatusType == {"Mapping"}

\* an entry of the list statuses() returns
Entry(cache, status, usernames) ==
    [status |-> cache[status.status], time_stamp |-> status.time_stamp,
     user |-> UserOf(status, usernames)]

RECURSIVE MappingStatusLoop(_, _, _, _)
\* the loop of Mapping.statuses: every record is appended; a KeyError of
\* status_type leaves the method
MappingStatusLoop(status_set, usernames, cache, statuses) ==
    IF status_set = <<>> THEN [raised |-> FALSE, result |-> statuses]
    ELSE IF Head(status_set).status \notin DOMAIN cache
    THEN [raised |-> TRUE, result |-> <<>>]
    ELSE MappingStatusLoop(Tail(status_set), usernames, cache,
                           Append(statuses,
                                  Entry(cache, Head(status_set), usernames)))

\* Mapping.statuses(usernames) of an instance
Mapping_statuses(mapping_id, usernames) ==
    MappingStatusLoop(StatusSet(mapping_id), usernames,
                      Populate(status_type_["Mapping"], cv_ue_status), <<>>)

RECURSIVE ViewStatusLoop(_, _, _, _)
\* the loop of MappingView.statuses: the append is in the else branch, so a
\* record whose user is taken is passed over; the append calls
\* MappingView.status_type, and the AttributeError of a class without that
\* method is caught by the except around the loop: the list built so far
\* is returned
ViewStatusLoop(status_set, usernames, cache, statuses) ==
    IF status_set = <<>> THEN statuses
    ELSE IF usernames /\ Head(status_set).user_stamp # None
    THEN ViewStatusLoop(Tail(status_set), usernames, cache, statuses)
    ELSE IF "MappingView" \notin HasStatusType
            \/ Head(status_set).status \notin DOMAIN cache
    THEN statuses
    ELSE ViewStatusLoop(Tail(status_set), usernames, cache,
                        Append(statuses,
                               Entry(cache, Head(status_set), usernames)))

\* MappingView.statuses(usernames) of a row: Mapping.objects.get raises
\* DoesNotExist for a mapping_id that is NULL or has no Mapping, and the
\* except returns the empty list
MappingView_statuses(pk, usernames) ==
    LET mapping_id == fields[pk]["mapping_id"]
    IN IF ~(mapping_id # None /\ mapping_id \subseteq mapping)
       THEN [raised |-> FALSE, result |-> <<>>]
       ELSE [raised |-> FALSE,
             result |-> ViewStatusLoop(StatusSet(ValueOf(mapping_id)),
                                       usernames,
                                       Populate(status_type_["MappingView"],
                                                cv_ue_status), <<>>)]

\* a call of statuses() returns
StatusesCall(op, pk, usernames, out) ==
    last' = [op |-> op, identity |-> pk, usernames |-> usernames,
             raised |-> out.raised, result |-> out.result, n |-> 1]

\* Mapping.statuses called on a mapping; status_type fills the cache of
\* the class when the loop reaches a record
MappingStatusesCall(mapping_id, usernames) ==
    /\ mapping_id \in mapping
    /\ StatusesCall("Mapping.statuses", mapping_id, usernames,
                    Mapping_statuses(mapping_id, usernames))
    /\ status_type_'
          = IF StatusSet(mapping_id) = <<>> THEN status_type_
            ELSE [status_type_ EXCEPT
                    !["Mapping"] = Populate(status_type_["Mapping"],
                                            cv_ue_status)]
    /\ UNCHANGED <<rowsets, cv_entry_type, cv_ue_status, entry_type_>>

\* MappingView.statuses called on a mapping_view row
MappingViewStatusesCall(pk, usernames) ==
    /\ pk \in DOMAIN mapping_view
    /\ StatusesCall("MappingView.statuses", pk, usernames,
                    MappingView_statuses(pk, usernames))
    /\ UNCHANGED <<rowsets, cv_entry_type, cv_ue_status, entry_type_,
                   status_type_>>

\* ------------------------------------------ handlers of views/unmapped.py
\* everything the handlers of unmapped.py neither read nor write, but for
\* the mapping_view columns and the CvUeStatus table
elsewhere == <<mapping, mapping_history, release_mapping_history, mapping_view,
               ensembl_species_history, cv_entry_type, entry_type_,
               status_type_, nullsLargest, cls, counts_, evaluated, last,
               uniprot_entry, status_history>>

\* a request that is not in a handler
Idle ==
    [at |-> "idle", mapping_view_id |-> 0, uniprot |-> 0, id |-> 0,
     text |-> "", comment |-> <<>>]

NoResponse ==
    [handler |-> "none", status |-> 0, uniprot |-> 0, id |-> 0,
     comments |-> <<>>, error |-> "", mapping_view_id |-> 0]

\* return Response(..., status=...) or raise Http404: the request is over
Respond(r, handler, status, uniprot, id, comments) ==
    /\ response' = [handler |-> handler, status |-> status,
                    uniprot |-> uniprot, id |-> id, comments |-> comments,
                    error |-> "", mapping_view_id |-> 0]
    /\ pc' = [pc EXCEPT ![r] = Idle]

\* return Response({'error': ...}, status=status.HTTP_400_BAD_REQUEST)
RespondError(r, handler, uniprot, id, error) ==
    /\ response' = [handler |-> handler, status |-> 400, uniprot |-> uniprot,
                    id |-> id, comments |-> <<>>, error |-> error,
                    mapping_view_id |-> 0]
    /\ pc' = [pc EXCEPT ![r] = Idle]

\* the request goes on to its next statement
Goto(r, at, mapping_view_id, uniprot, id, text, comment) ==
    /\ pc' = [pc EXCEPT ![r] = [at |-> at, mapping_view_id |-> mapping_view_id,
                                uniprot |-> uniprot, id |-> id, text |-> text,
                                comment |-> comment]]
    /\ UNCHANGED response

\* get_uniprot_entry(mapping_view_id): the cell of the uniprot_id, or None
\* where the function raises Http404 (no such mapping_view row, or no
\* UniprotEntry of its uniprot_id, which may be NULL)
get_uniprot_entry(mapping_view_id) ==
    IF mapping_view_id \notin DOMAIN mapping_view THEN None
    ELSE IF fields[mapping_view_id]["uniprot_id"] \subseteq uniprot_entry
         THEN fields[mapping_view_id]["uniprot_id"]
         ELSE None

\* UeUnmappedEntryLabel.objects.filter(uniprot=uniprot_entry, label=label_id)
EntryLabels(table, uniprot, label_id) ==
    {i \in DOMAIN table :
        table[i].uniprot = uniprot /\ table[i].label = label_id}

\* AddDeleteLabel.post up to 'if entry_labels:', the statement that
\* evaluates the filter
AddDeleteLabelPost(r, mapping_view_id, label_id) ==
    /\ pc[r].at = "idle"
    /\ LET entry == get_uniprot_entry(mapping_view_id)
           uniprot == ValueOf(entry)
       IN IF entry = None
          THEN Respond(r, "AddDeleteLabel.post", 404, 0, label_id, <<>>)
          ELSE IF EntryLabels(ue_unmapped_entry_label, uniprot, label_id) # {}
          THEN Respond(r, "AddDeleteLabel.post", 204, uniprot, label_id, <<>>)
          ELSE Goto(r, "AddDeleteLabel.post:save", mapping_view_id, uniprot,
                    label_id, "", <<>>)
    /\ UNCHANGED <<elsewhere, fields, cv_ue_status, ue_unmapped_entry_label,
                   ue_unmapped_entry_comment, ue_unmapped_entry_status, now>>

\* AddDeleteLabel.post from serializer.is_valid(): the record is inserted
\* when the serializer accepts the data
AddDeleteLabelPostSave(r) ==
    /\ pc[r].at = "AddDeleteLabel.post:save"
    /\ \E valid \in BOOLEAN :
          IF valid
          THEN /\ Len(ue_unmapped_entry_label) < MaxLabels
               /\ now < MaxTime
               /\ ue_unmapped_entry_label'
                     = Append(ue_unmapped_entry_label,
                              [uniprot |-> pc[r].uniprot, label |-> pc[r].id,
                               time_stamp |-> now])
               /\ now' = now + 1
               /\ Respond(r, "AddDeleteLabel.post", 201, pc[r].uniprot,
                          pc[r].id, <<>>)
          ELSE /\ Respond(r, "AddDeleteLabel.post", 400, pc[r].uniprot,
                          pc[r].id, <<>>)
               /\ UNCHANGED <<ue_unmapped_entry_label, now>>
    /\ UNCHANGED <<elsewhere, fields, cv_ue_status, ue_unmapped_entry_comment,
                   ue_unmapped_entry_status>>

\* AddDeleteLabel.delete up to 'if entry_labels:'
AddDeleteLabelDelete(r, mapping_view_id, label_id) ==
    /\ pc[r].at = "idle"
    /\ LET entry == get_uniprot_entry(mapping_view_id)
           uniprot == ValueOf(entry)
       IN IF entry = None
          THEN Respond(r, "AddDeleteLabel.delete", 404, 0, label_id, <<>>)
          ELSE IF EntryLabels(ue_unmapped_entry_label, uniprot, label_id) = {}
          THEN Respond(r, "AddDeleteLabel.delete", 404, uniprot, label_id, <<>>)
          ELSE Goto(r, "AddDeleteLabel.delete:delete", mapping_view_id, uniprot,
                    label_id, "", <<>>)
    /\ UNCHANGED <<elsewhere, fields, cv_ue_status, ue_unmapped_entry_label,
                   ue_unmapped_entry_comment, ue_unmapped_entry_status, now>>

\* entry_labels.delete(): the query set is cloned and its filter runs again
\* in the DELETE statement
AddDeleteLabelDeleteRows(r) ==
    /\ pc[r].at = "AddDeleteLabel.delete:delete"
    /\ ue_unmapped_entry_label'
          = SelectSeq(ue_unmapped_entry_label,
                      LAMBDA row : ~(/\ row.uniprot = pc[r].uniprot
                                     /\ row.label = pc[r].id))
    /\ Respond(r, "AddDeleteLabel.delete", 204, pc[r].uniprot, pc[r].id, <<>>)
    /\ UNCHANGED <<elsewhere, fields, cv_ue_status, ue_unmapped_entry_comment,
                   ue_unmapped_entry_status, now>>

\* the comments of a UniProt entry: uniprot_entry.comments
CommentsOf(uniprot) ==
    {id \in DOMAIN ue_unmapped_entry_comment :
        ue_unmapped_entry_comment[id].uniprot = uniprot}

\* .filter(deleted=False).order_by('-time_stamp'): the ids, latest first
EntryComments(uniprot) ==
    LET kept == {id \in CommentsOf(uniprot) :
                    ~ue_unmapped_entry_comment[id].deleted}
        stamps == Reverse(Ascending({ue_unmapped_entry_comment[id].time_stamp :
                                        id \in kept}))
    IN [i \in DOMAIN stamps |->
          CHOOSE id \in kept :
              ue_unmapped_entry_comment[id].time_stamp = stamps[i]]

\* AddGetComments.get: one SELECT
AddGetCommentsGet(r, mapping_view_id) ==
    /\ pc[r].at = "idle"
    /\ LET entry == get_uniprot_entry(mapping_view_id)
       IN IF entry = None
          THEN Respond(r, "AddGetComments.get", 404, 0, 0, <<>>)
          ELSE Respond(r, "AddGetComments.get", 200, ValueOf(entry), 0,
                       EntryComments(ValueOf(entry)))
    /\ UNCHANGED <<elsewhere, fields, cv_ue_status, ue_unmapped_entry_label,
                   ue_unmapped_entry_comment, ue_unmapped_entry_status, now>>

\* AddGetComments.post: request.data['text'] raises KeyError when the
\* payload has no text; the comment is inserted when the serializer accepts
\* the data
AddGetCommentsPost(r, mapping_view_id, data) ==
    /\ pc[r].at = "idle"
    /\ LET entry == get_uniprot_entry(mapping_view_id)
       IN IF entry = None \/ data = None
          THEN /\ Respond(r, "AddGetComments.post", 404, 0, 0, <<>>)
               /\ UNCHANGED <<ue_unmapped_entry_comment, now>>
          ELSE \E valid \in BOOLEAN :
                 IF valid
                 THEN /\ Len(ue_unmapped_entry_comment) < MaxComments
                      /\ now < MaxTime
                      /\ ue_unmapped_entry_comment'
                            = Append(ue_unmapped_entry_comment,
                                     [uniprot |-> ValueOf(entry),
                                      comment |-> ValueOf(data),
                                      time_stamp |-> now, deleted |-> FALSE])
                      /\ now' = now + 1
                      /\ Respond(r, "AddGetComments.post", 201, ValueOf(entry),
                                 Len(ue_unmapped_entry_comment) + 1, <<>>)
                 ELSE /\ Respond(r, "AddGetComments.post", 400, ValueOf(entry),
                                 0, <<>>)
                      /\ UNCHANGED <<ue_unmapped_entry_comment, now>>
    /\ UNCHANGED <<elsewhere, fields, cv_ue_status, ue_unmapped_entry_label,
                   ue_unmapped_entry_status>>

\* EditDeleteComment.put up to the statement that loads the comment and
\* tests its deleted flag
EditDeleteCommentPut(r, mapping_view_id, comment_id, data) ==
    /\ pc[r].at = "idle"
    /\ LET entry == get_uniprot_entry(mapping_view_id)
           uniprot == ValueOf(entry)
           handler == "EditDeleteComment.put"
       IN IF entry = None
          THEN Respond(r, handler, 404, 0, comment_id, <<>>)
          ELSE IF data = None
          THEN RespondError(r, handler, uniprot, comment_id,
                            "Text not specified")
          ELSE IF comment_id \notin CommentsOf(uniprot)
          THEN RespondError(r, handler, uniprot, comment_id,
                            "Invalid comment ID")
          ELSE IF ue_unmapped_entry_comment[comment_id].deleted
          THEN RespondError(r, handler, uniprot, comment_id,
                            "Cannot edit deleted comment")
          ELSE Goto(r, "EditDeleteComment.put:save", mapping_view_id, uniprot,
                    comment_id, ValueOf(data),
                    ue_unmapped_entry_comment[comment_id])
    /\ UNCHANGED <<elsewhere, fields, cv_ue_status, ue_unmapped_entry_label,
                   ue_unmapped_entry_comment, ue_unmapped_entry_status, now>>

\* comment.comment = ...; comment.time_stamp = timezone.now();
\* comment.save(): the UPDATE writes every column of the object loaded
EditDeleteCommentPutSave(r) ==
    /\ pc[r].at = "EditDeleteComment.put:save"
    /\ now < MaxTime
    /\ ue_unmapped_entry_comment'
          = [ue_unmapped_entry_comment EXCEPT
               ![pc[r].id] = [pc[r].comment EXCEPT !.comment = pc[r].text,
                                                   !.time_stamp = now]]
    /\ now' = now + 1
    /\ Respond(r, "EditDeleteComment.put", 200, pc[r].uniprot, pc[r].id, <<>>)
    /\ UNCHANGED <<elsewhere, fields, cv_ue_status, ue_unmapped_entry_label,
                   ue_unmapped_entry_status>>

\* EditDeleteComment.delete up to the statement that loads the comment
EditDeleteCommentDelete(r, mapping_view_id, comment_id) ==
    /\ pc[r].at = "idle"
    /\ LET entry == get_uniprot_entry(mapping_view_id)
           uniprot == ValueOf(entry)
           handler == "EditDeleteComment.delete"
       IN IF entry = None
          THEN Respond(r, handler, 404, 0, comment_id, <<>>)
          ELSE IF comment_id \notin CommentsOf(uniprot)
          THEN RespondError(r, handler, uniprot, comment_id,
                            "Invalid comment ID")
          ELSE Goto(r, "EditDeleteComment.delete:save", mapping_view_id,
                    uniprot, comment_id, "",
                    ue_unmapped_entry_comment[comment_id])
    /\ UNCHANGED <<elsewhere, fields, cv_ue_status, ue_unmapped_entry_label,
                   ue_unmapped_entry_comment, ue_unmapped_entry_status, now>>

\* comment.deleted = True; comment.save()
EditDeleteCommentDeleteSave(r) ==
    /\ pc[r].at = "EditDeleteComment.delete:save"
    /\ ue_unmapped_entry_comment'
          = [ue_unmapped_entry_comment EXCEPT
               ![pc[r].id] = [pc[r].comment EXCEPT !.deleted = TRUE]]
    /\ Respond(r, "EditDeleteComment.delete", 204, pc[r].uniprot, pc[r].id,
               <<>>)
    /\ UNCHANGED <<elsewhere, fields, cv_ue_status, ue_unmapped_entry_label,
                   ue_unmapped_entry_status, now>>

\* a response of StatusChange.put about a mapping_view row and a status
RespondStatus(r, status, mapping_view_id, uniprot, s) ==
    /\ response' = [handler |-> "StatusChange.put", status |-> status,
                    uniprot |-> uniprot, id |-> s, comments |-> <<>>,
                    error |-> "", mapping_view_id |-> mapping_view_id]
    /\ pc' = [pc EXCEPT ![r] = Idle]

\* CvUeStatus.objects.get(description=...): the cell of the id, or None
\* where get raises DoesNotExist or MultipleObjectsReturned
GetStatus(description) ==
    LET found == {id \in DOMAIN cv_ue_status : cv_ue_status[id] = description}
    IN IF Cardinality(found) = 1 THEN found ELSE None

\* UeUnmappedEntryStatus.objects.filter(uniprot=uniprot_entry)
EntryStatuses(table, uniprot) ==
    SelectSeq(table, LAMBDA row : row.uniprot = uniprot)

\* .latest('time_stamp') of a list of records that is not empty
LatestStatus(rows) ==
    CHOOSE row \in Distinct(rows) :
        \A other \in Distinct(rows) : other.time_stamp <= row.time_stamp

\* StatusChange.put up to the test of the latest status record
StatusChangePut(r, mapping_view_id, data) ==
    /\ pc[r].at = "idle"
    /\ LET entry == get_uniprot_entry(mapping_view_id)
           uniprot == ValueOf(entry)
           s == IF data = None THEN None ELSE GetStatus(ValueOf(data))
           history == EntryStatuses(ue_unmapped_entry_status, uniprot)
       IN IF entry = None
          THEN RespondStatus(r, 404, mapping_view_id, 0, 0)
          ELSE IF s = None
          THEN RespondStatus(r, 404, mapping_view_id, uniprot, 0)
          ELSE IF history # <<>> /\ LatestStatus(history).status = ValueOf(s)
          THEN RespondStatus(r, 204, mapping_view_id, uniprot, ValueOf(s))
          ELSE Goto(r, "StatusChange.put:save", mapping_view_id, uniprot,
                    ValueOf(s), "", <<>>)
    /\ UNCHANGED <<elsewhere, fields, cv_ue_status, ue_unmapped_entry_label,
                   ue_unmapped_entry_comment, ue_unmapped_entry_status, now>>

\* serializer.is_valid() and serializer.save(): the status record is
\* inserted, or the request is answered 400
StatusChangePutSave(r) ==
    /\ pc[r].at = "StatusChange.put:save"
    /\ \E valid \in BOOLEAN :
          IF valid
          THEN /\ now < MaxTime
               /\ ue_unmapped_entry_status'
                     = Append(ue_unmapped_entry_status,
                              [uniprot |-> pc[r].uniprot, status |-> pc[r].id,
                               time_stamp |-> now])
               /\ now' = now + 1
               /\ Goto(r, "StatusChange.put:map_view", pc[r].mapping_view_id,
                       pc[r].uniprot, pc[r].id, "", <<>>)
          ELSE /\ RespondStatus(r, 400, pc[r].mapping_view_id, pc[r].uniprot,
                                pc[r].id)
               /\ UNCHANGED <<ue_unmapped_entry_status, now>>
    /\ UNCHANGED <<elsewhere, fields, cv_ue_status, ue_unmapped_entry_label,
                   ue_unmapped_entry_comment>>

\* map_view = MappingView.objects.get(pk=mapping_view_id); the description
\* of its previous status is looked up (DoesNotExist is not caught: 500);
\* map_view.status = s.id; map_view.save()
StatusChangePutMapView(r) ==
    /\ pc[r].at = "StatusChange.put:map_view"
    /\ LET mapping_view_id == pc[r].mapping_view_id
       IN IF fields[mapping_view_id]["status"] \subseteq DOMAIN cv_ue_status
          THEN /\ fields' = [fields EXCEPT
                               ![mapping_view_id]["status"] = Cell(pc[r].id)]
               /\ RespondStatus(r, 201, mapping_view_id, pc[r].uniprot,
                                pc[r].id)
          ELSE /\ RespondStatus(r, 500, mapping_view_id, pc[r].uniprot,
                                pc[r].id)
               /\ UNCHANGED fields
    /\ UNCHANGED <<elsewhere, cv_ue_status, ue_unmapped_entry_label,
                   ue_unmapped_entry_comment, ue_unmapped_entry_status, now>>

\* ------------------------------------------------------------ specification
HistoryRows ==
    [mapping : MappingIds, release_mapping_history : ReleaseIds,
     grouping_id : GroupingIds \cup {NULL}]

ReleaseTables ==
    {t \in [ReleaseIds -> [uniprot_taxid : TaxIds, time_mapped : Times]] :
        /\ \A r, s \in ReleaseIds : r # s => t[r].time_mapped # t[s].time_mapped
        \* species are numbered in the order their first release appears
        /\ \A r \in ReleaseIds : t[r].uniprot_taxid <= r}

SeqsUpTo(S, n) == UNION {[1..k -> S] : k \in 0..n}

\* the vocabulary tables are empty and no lookup has been made
\* no request of views/unmapped.py is made and its tables are empty; no
\* mapping has a status record
NoAnnotations ==
    /\ status_history = <<>>
    /\ uniprot_entry = {}
    /\ ue_unmapped_entry_label = <<>>
    /\ ue_unmapped_entry_comment = <<>>
    /\ ue_unmapped_entry_status = <<>>
    /\ now = 1
    /\ pc = [r \in Requests |-> Idle]
    /\ response = NoResponse

NoVocabulary ==
    /\ cv_entry_type = <<>>
    /\ cv_ue_status = <<>>
    /\ entry_type_ = [c \in ModelClasses |-> <<>>]
    /\ status_type_ = [c \in ModelClasses |-> <<>>]

\* the tables of the normalized form hold rows and the instances are
\* MappingQuerySets, or mapping_view holds rows and they are
\* MappingViewQuerySets
InitNormalized ==
    /\ cls = [q \in Instances |-> MappingQuerySetCls]
    /\ mapping \in SUBSET MappingIds
    /\ mapping_history \in SeqsUpTo(HistoryRows, MaxHist)
    /\ \A i \in DOMAIN mapping_history : mapping_history[i].mapping \in mapping
    \* the history entries of a mapping for one release are copies of one
    \* another, so what latest() answers is determined
    /\ \A i, j \in DOMAIN mapping_history :
          (/\ mapping_history[i].mapping = mapping_history[j].mapping
           /\ mapping_history[i].release_mapping_history
                  = mapping_history[j].release_mapping_history)
              => mapping_history[i] = mapping_history[j]
    /\ release_mapping_history \in ReleaseTables
    /\ mapping_view = <<>>
    /\ fields = <<>>
    /\ ensembl_species_history = <<>>

InitView ==
    /\ cls = [q \in Instances |-> MappingViewQuerySetCls]
    /\ mapping = {}
    /\ mapping_history = <<>>
    /\ release_mapping_history
          = [r \in ReleaseIds |-> [uniprot_taxid |-> 1, time_mapped |-> r]]
    /\ mapping_view \in SeqsUpTo(GroupingIds \cup {NULL}, MaxView)
    /\ fields = <<>>
    /\ ensembl_species_history = <<>>

Init ==
    /\ InitNormalized \/ InitView
    /\ NoVocabulary
    /\ NoAnnotations
    /\ nullsLargest \in BOOLEAN
    /\ counts_ = [q \in Instances |-> Unset]
    /\ evaluated = [q \in Instances |-> FALSE]
    /\ last = NoCall

\* one request: the calls are made on one query-set instance
Next ==
    \/ MappingGroupedCount(1)
    \/ \E offset \in Offsets, limit \in Limits :
          MappingGroupedSlice(1, offset, limit)
    \/ ViewGroupedCount(1)
    \/ \E offset \in Offsets, limit \in Limits :
          ViewGroupedSlice(1, offset, limit)

Spec == Init /\ [][Next]_vars

\* two requests: calls on two instances with different predicates interleave
NextTwo ==
    \/ \E q \in Instances : MappingGroupedCount(q)
    \/ \E q \in Instances, offset \in Offsets, limit \in Limits :
          MappingGroupedSlice(q, offset, limit)
    \/ \E q \in Instances : ViewGroupedCount(q)
    \/ \E q \in Instances, offset \in Offsets, limit \in Limits :
          ViewGroupedSlice(q, offset, limit)

\* the two requests run against one backend and one release table
InitTwo ==
    /\ Init
    /\ nullsLargest
    /\ \A i, j \in DOMAIN mapping_history :
          mapping_history[i] = mapping_history[j] => i = j
    /\ release_mapping_history
          = [r \in ReleaseIds |-> [uniprot_taxid |-> 1, time_mapped |-> r]]

SpecTwo == InitTwo /\ [][NextTwo]_vars

\* --------------------------------------------- specification of the facets
FacetColumns ==
    {"alignment_difference", "status", "chromosome", "ensembl_species_history",
     "uniprot_tax_id", "uniprot_mapping_status", "region_accession"}

\* the cells a column takes, in the order the initial tables list them.
\* Mapping.status is a foreign key that is not null; the other columns are
\* nullable
ColumnCells(class, column) ==
    CASE column = "alignment_difference" ->
            <<Cell(0), Cell(3), Cell(5), Cell(6), Cell(7), Cell(-1), None>>
      [] column = "status" ->
            IF class = MappingQuerySetCls THEN <<Cell(1), Cell(2)>>
            ELSE <<Cell(1), Cell(2), None>>
      [] column = "chromosome" ->
            <<Cell(EmptyLabel), Cell(1), Cell(2), None>>
      [] column = "ensembl_species_history" -> <<Cell(1), Cell(2), None>>
      [] column = "uniprot_tax_id" -> <<Cell(1), Cell(2), None>>
      [] column = "uniprot_mapping_status" -> <<Cell(1), Cell(2), None>>
      [] column = "region_accession" ->
            <<Cell(<<"C", "H", "R", "1">>), Cell(<<"c", "h", "r", "1">>),
              Cell(<<"1", "C", "H", "R">>), Cell(<<"1">>), None>>

\* a row whose facet columns hold the default status and NULL elsewhere
DefaultRow ==
    [column \in FacetColumns |-> IF column = "status" THEN Cell(1) ELSE None]

\* the number of rows of the initial tables in which a column varies
RowsOf(column) ==
    IF column = "alignment_difference" THEN MaxRows ELSE MaxOther

\* the facets count rows or collect distinct cells, so tables that differ
\* in the order of their rows only give the same answers: one order is listed
NonDecreasing(n, d) ==
    {f \in [1..n -> 1..d] : \A i, j \in 1..n : i < j => f[i] <= f[j]}

\* the ensembl_species_history tables: two loads of one species
SpeciesTables ==
    {<<>>,
     <<[ensembl_tax_id |-> Cell(1), time_loaded |-> 1, species |-> 1]>>,
     <<[ensembl_tax_id |-> Cell(1), time_loaded |-> 2, species |-> 1],
       [ensembl_tax_id |-> Cell(1), time_loaded |-> 1, species |-> 2]>>,
     <<[ensembl_tax_id |-> Cell(1), time_loaded |-> 1, species |-> 1],
       [ensembl_tax_id |-> Cell(2), time_loaded |-> 2, species |-> 2]>>}

\* rows alternate between two groups
GroupingOf(i) == IF i % 2 = 1 THEN 1 ELSE 2

\* a table of n rows in which one facet column varies: each row is a
\* mapping with one history entry for the latest release, or a mapping_view
\* row
InitFacets ==
    /\ cls \in {[q \in Instances |-> MappingQuerySetCls],
                [q \in Instances |-> MappingViewQuerySetCls]}
    /\ release_mapping_history
          = [r \in ReleaseIds |-> [uniprot_taxid |-> 1, time_mapped |-> r]]
    /\ nullsLargest = TRUE
    /\ NoVocabulary
    /\ NoAnnotations
    /\ \E column \in FacetColumns :
          /\ \E n \in 0..RowsOf(column) :
                /\ \E f \in NonDecreasing(n, Len(ColumnCells(cls[1], column))) :
                      fields = [pk \in 1..n |->
                                  [DefaultRow EXCEPT
                                     ![column] = ColumnCells(cls[1], column)[f[pk]]]]
                /\ IF cls[1] = MappingQuerySetCls
                   THEN /\ mapping = 1..n
                        /\ mapping_history
                              = [i \in 1..n |->
                                   [mapping |-> i, release_mapping_history |-> 2,
                                    grouping_id |-> GroupingOf(i)]]
                        /\ mapping_view = <<>>
                   ELSE /\ mapping = {}
                        /\ mapping_history = <<>>
                        /\ mapping_view = [i \in 1..n |-> GroupingOf(i)]
          /\ IF column \in {"ensembl_species_history", "uniprot_tax_id"}
             THEN ensembl_species_history \in SpeciesTables
             ELSE ensembl_species_history = <<>>
    \* a foreign key into ensembl_species_history points to a row
    /\ \A pk \in DOMAIN fields :
          \A e \in fields[pk]["ensembl_species_history"] :
              e \in DOMAIN ensembl_species_history
    /\ counts_ = [q \in Instances |-> Unset]
    /\ evaluated = [q \in Instances |-> FALSE]
    /\ last = NoCall

\* the facet methods called on one query set
NextFacets ==
    \/ MappingStatuses(1)
    \/ ViewStatuses(1)
    \/ MappingSpecies(1)
    \/ ViewSpecies(1)
    \/ MappingDivergences(1)
    \/ ViewDivergences(1)
    \/ MappingChromosomes(1)
    \/ ViewChromosomes(1)
    \/ ViewTypes(1)
    \/ ViewHasPatches(1)

SpecFacets == InitFacets /\ [][NextFacets]_vars

\* every method of a query set, on the tables of at most MaxOther rows
InitAll ==
    /\ InitFacets
    /\ Len(fields) <= MaxOther

NextAll ==
    \/ Next
    \/ NextFacets

SpecAll == InitAll /\ [][NextAll]_vars

\* ------------------------------------- specification of the vocabulary caches
VocabTables == UNION {[D -> Descriptions] : D \in SUBSET VocabIds}

\* one process: no lookup has been made, the caches are the empty dicts of
\* the class bodies
InitVocab ==
    /\ cls = [q \in Instances |-> MappingViewQuerySetCls]
    /\ mapping = {}
    /\ mapping_history = <<>>
    /\ release_mapping_history
          = [r \in ReleaseIds |-> [uniprot_taxid |-> 1, time_mapped |-> r]]
    /\ mapping_view = <<>>
    /\ fields = <<>>
    /\ ensembl_species_history = <<>>
    /\ nullsLargest = TRUE
    /\ counts_ = [q \in Instances |-> Unset]
    /\ evaluated = [q \in Instances |-> FALSE]
    /\ last = NoCall
    /\ cv_entry_type \in VocabTables
    /\ cv_ue_status \in VocabTables
    /\ entry_type_ = [c \in ModelClasses |-> <<>>]
    /\ status_type_ = [c \in ModelClasses |-> <<>>]
    /\ NoAnnotations

\* the steps of the program on the caches: the four class methods
Lookups ==
    \/ \E identity \in Identities : MappingEntryType(identity)
    \/ \E identity \in Identities : MappingStatusType(identity)
    \/ \E identity \in Identities : ViewEntryDescription(identity)
    \/ \E identity \in Identities : ViewStatusDescription(identity)

\* lookups of any request of the process, and changes of the tables
NextVocab ==
    \/ Lookups
    \/ \E id \in VocabIds, description \in Descriptions :
          ChangeCvEntryType(id, description)
    \/ \E id \in VocabIds, description \in Descriptions :
          ChangeCvUeStatus(id, description)

SpecVocab == InitVocab /\ [][NextVocab]_vars

\* ------------------------------------ specifications of views/unmapped.py
\* a mapping_view row of an unmapped entry
UnmappedRow(uniprot_id) ==
    [column \in FacetColumns \cup {"uniprot_id", "mapping_id"} |->
        CASE column = "uniprot_id" -> uniprot_id
          [] column = "uniprot_mapping_status" -> Cell(2)
          [] OTHER -> None]

\* two mapping_view rows, of one UniProt entry or of two, or with a
\* uniprot_id that is NULL or has no UniprotEntry; no label, comment or
\* status has been recorded and no request is in flight
InitUnmapped ==
    /\ cls = [q \in Instances |-> MappingViewQuerySetCls]
    /\ mapping = {}
    /\ mapping_history = <<>>
    /\ release_mapping_history
          = [r \in ReleaseIds |-> [uniprot_taxid |-> 1, time_mapped |-> r]]
    /\ mapping_view = <<1, 1>>
    /\ \E u \in {Cell(1), Cell(2), None} :
          fields = <<UnmappedRow(Cell(1)), UnmappedRow(u)>>
    /\ ensembl_species_history = <<>>
    /\ nullsLargest = TRUE
    /\ counts_ = [q \in Instances |-> Unset]
    /\ evaluated = [q \in Instances |-> FALSE]
    /\ last = NoCall
    /\ cv_entry_type = <<>>
    /\ cv_ue_status = <<"a", "b">>
    /\ entry_type_ = [c \in ModelClasses |-> <<>>]
    /\ status_type_ = [c \in ModelClasses |-> <<>>]
    /\ status_history = <<>>
    /\ uniprot_entry = {1}
    /\ ue_unmapped_entry_label = <<>>
    /\ ue_unmapped_entry_comment = <<>>
    /\ ue_unmapped_entry_status = <<>>
    /\ now = 1
    /\ pc = [r \in Requests |-> Idle]
    /\ response = NoResponse

\* requests to AddDeleteLabel, two of them in flight at one time
NextLabels ==
    \/ \E r \in Requests, mapping_view_id \in ViewIds, label_id \in LabelIds :
          AddDeleteLabelPost(r, mapping_view_id, label_id)
    \/ \E r \in Requests : AddDeleteLabelPostSave(r)
    \/ \E r \in Requests, mapping_view_id \in ViewIds, label_id \in LabelIds :
          AddDeleteLabelDelete(r, mapping_view_id, label_id)
    \/ \E r \in Requests : AddDeleteLabelDeleteRows(r)

SpecLabels == InitUnmapped /\ [][NextLabels]_vars

\* the payload of a request: the text, or no 'text' key
Payloads == {Cell(text) : text \in Texts} \cup {None}

\* requests to AddGetComments and EditDeleteComment, two in flight at one
\* time
NextComments ==
    \/ \E r \in Requests, mapping_view_id \in ViewIds :
          AddGetCommentsGet(r, mapping_view_id)
    \/ \E r \in Requests, mapping_view_id \in ViewIds, data \in Payloads :
          AddGetCommentsPost(r, mapping_view_id, data)
    \/ \E r \in Requests, mapping_view_id \in ViewIds,
          comment_id \in CommentIds, data \in Payloads :
          EditDeleteCommentPut(r, mapping_view_id, comment_id, data)
    \/ \E r \in Requests : EditDeleteCommentPutSave(r)
    \/ \E r \in Requests, mapping_view_id \in ViewIds,
          comment_id \in CommentIds :
          EditDeleteCommentDelete(r, mapping_view_id, comment_id)
    \/ \E r \in Requests : EditDeleteCommentDeleteSave(r)

SpecComments == InitUnmapped /\ [][NextComments]_vars

\* the 'status' of a request: a description, or no 'status' key
StatusPayloads == {Cell(description) : description \in Descriptions} \cup {None}

\* requests to StatusChange made one after the other (a request begins when
\* the one before it is answered), and changes of the descriptions of the
\* CvUeStatus table
NextStatus ==
    \/ \E mapping_view_id \in ViewIds, data \in StatusPayloads :
          StatusChangePut(1, mapping_view_id, data)
    \/ StatusChangePutSave(1)
    \/ StatusChangePutMapView(1)
    \/ \E id \in DOMAIN cv_ue_status, description \in Descriptions :
          ChangeCvUeStatus(id, description)

SpecStatus == InitUnmapped /\ [][NextStatus]_vars

\* ----------------------------------------- specification of statuses()
\* the status records: of mapping 1 or 2, stamped by user 1 or by no user
StatusRecords ==
    [mapping : MappingIds, status : DOMAIN <<"a", "b">>, time_stamp : Times,
     user_stamp : {Cell(1), None}]

\* mapping 1 exists; mapping_view row 1 is of a mapping_id that is NULL, 1
\* or 2, row 2 of mapping 1; the status records of a mapping have different
\* time stamps
InitStatuses ==
    /\ cls = [q \in Instances |-> MappingViewQuerySetCls]
    /\ mapping = {1}
    /\ mapping_history = <<>>
    /\ release_mapping_history
          = [r \in ReleaseIds |-> [uniprot_taxid |-> 1, time_mapped |-> r]]
    /\ mapping_view = <<1, 1>>
    /\ \E m \in {Cell(1), Cell(2), None} :
          fields = <<[UnmappedRow(Cell(1)) EXCEPT !["mapping_id"] = m],
                     [UnmappedRow(Cell(1)) EXCEPT !["mapping_id"] = Cell(1)]>>
    /\ ensembl_species_history = <<>>
    /\ nullsLargest = TRUE
    /\ counts_ = [q \in Instances |-> Unset]
    /\ evaluated = [q \in Instances |-> FALSE]
    /\ last = NoCall
    /\ cv_entry_type = <<>>
    /\ cv_ue_status = <<"a", "b">>
    /\ entry_type_ = [c \in ModelClasses |-> <<>>]
    /\ status_type_ = [c \in ModelClasses |-> <<>>]
    /\ status_history \in SeqsUpTo(StatusRecords, MaxStatuses)
    /\ \A i, j \in DOMAIN status_history :
          (/\ status_history[i].mapping = status_history[j].mapping
           /\ status_history[i].time_stamp = status_history[j].time_stamp)
              => i = j
    /\ \A i \in DOMAIN status_history : status_history[i].mapping \in mapping
    /\ uniprot_entry = {1}
    /\ ue_unmapped_entry_label = <<>>
    /\ ue_unmapped_entry_comment = <<>>
    /\ ue_unmapped_entry_status = <<>>
    /\ now = 1
    /\ pc = [r \in Requests |-> Idle]
    /\ response = NoResponse

NextStatuses ==
    \/ \E mapping_id \in MappingIds, usernames \in BOOLEAN :
          MappingStatusesCall(mapping_id, usernames)
    \/ \E pk \in ViewIds, usernames \in BOOLEAN :
          MappingViewStatusesCall(pk, usernames)

SpecStatuses == InitStatuses /\ [][NextStatuses]_vars

\* ------------------------------------------------------------------ claims
IsSlice == last.op = "grouped_slice"
IsCount == last.op = "grouped_count"
Normalized(q) == cls[q] = MappingQuerySetCls

RECURSIVE RowsIn(_)
\* the number of rows in the lists of a returned mapping
RowsIn(groups) ==
    IF groups = <<>> THEN 0 ELSE Len(Head(groups).rows) + RowsIn(Tail(groups))

\* the sum of 'total' over the GroupCount entries the last call asked for
RequestedTotal ==
    SumTotal(PySlice(GroupCount(last.q), last.offset, last.offset + last.limit))

\* C1, as stated: in both forms the rows in the lists grouped_slice returns
\* are as many as the sum of 'total' over the GroupCount entries at
\* [group_offset, group_offset+group_limit).
C1_Orig ==
    (IsSlice /\ ~last.raised) => RowsIn(last.groups) = RequestedTotal

\* C1, amended: MappingViewQuerySet.grouped_slice returns exactly as many
\* rows as the sum of 'total' over the requested GroupCount entries;
\* MappingQuerySet.grouped_slice, which drops duplicate and ineligible rows,
\* returns at most that many.
C1_Amended ==
    (IsSlice /\ ~last.raised) =>
        IF Normalized(last.q)
        THEN RowsIn(last.groups) <= RequestedTotal
        ELSE RowsIn(last.groups) = RequestedTotal

\* a page of the denormalized form that skips a group and returns two rows
C1_Witness ==
    /\ IsSlice /\ ~Normalized(last.q)
    /\ last.offset >= 1 /\ last.qs_offset >= 1
    /\ RowsIn(last.groups) >= 2

\* a page of the normalized form that returns fewer rows than were counted
C1_WitnessNormalized ==
    /\ IsSlice /\ Normalized(last.q) /\ ~last.raised
    /\ RowsIn(last.groups) >= 1
    /\ RowsIn(last.groups) < RequestedTotal

\* the rows of all lists of a returned mapping, in order
RECURSIVE Flatten(_)
Flatten(groups) ==
    IF groups = <<>> THEN <<>> ELSE Head(groups).rows \o Flatten(Tail(groups))

Occurrences(s, x) == Cardinality({i \in DOMAIN s : s[i] = x})

\* x is in the list of key k of a returned mapping
InList(groups, k, x) ==
    \E i \in DOMAIN groups :
        groups[i].key = k /\ \E j \in DOMAIN groups[i].rows : groups[i].rows[j] = x

\* the mappings of an instance's rowset whose latest history entry points to
\* the latest release of its species
EligibleMappings(q) ==
    {m \in mapping : Filter(q, m) /\ HistoryOf(m) # {} /\ Eligible(m)}

\* the returned mapping holds every element of DOMAIN keyOf exactly once, in
\* the list of its own key, and holds nothing else
Partition(groups, keyOf) ==
    /\ \A x \in DOMAIN keyOf :
          /\ Occurrences(Flatten(groups), x) = 1
          /\ InList(groups, keyOf[x], x)
    /\ \A i \in DOMAIN Flatten(groups) : Flatten(groups)[i] \in DOMAIN keyOf

\* C2: grouped_slice(0, grouped_count) returns every eligible row exactly
\* once, in the list of its own group key and in no other list, and misses
\* no eligible row.
C2_Orig ==
    (IsSlice /\ last.offset = 0 /\ last.limit = Len(GroupCount(last.q))) =>
        /\ ~last.raised
        /\ IF Normalized(last.q)
           THEN Partition(last.groups,
                          [m \in EligibleMappings(last.q) |->
                              mapping_history[Latest(m)].grouping_id])
           ELSE Partition(last.groups,
                          [id \in {ViewRows(last.q)[i].id :
                                      i \in DOMAIN ViewRows(last.q)} |->
                              mapping_view[id]])

\* C3: the group keys of grouped_slice(0, k) followed by those of
\* grouped_slice(k, m) are the group keys of grouped_slice(0, k+m), in the
\* same order.
C3_Orig ==
    (IsSlice /\ last.offset = 0 /\ ~last.raised) =>
        \A k \in 0..last.limit :
            LET first == SliceNow(last.q, 0, k)
                second == SliceNow(last.q, k, last.limit - k)
            IN (~first.raised /\ ~second.raised) =>
                  KeysOf(first.groups) \o KeysOf(second.groups)
                      = KeysOf(last.groups)

\* C4: over any sequence of grouped_count and grouped_slice calls on one
\* instance the counts query is evaluated against storage at most once: a
\* call issues at most one counts query, and none once the instance has
\* issued one.
C4_Orig ==
    [][IF evaluated[last'.q] THEN last'.nq = 0 ELSE last'.nq <= 1]_vars

C6_InstanceScoped ==
    /\ \A q \in Instances : GroupCount(q) = CountsQuery(q)
    /\ IsCount => last.count = Len(CountsQuery(last.q))
    /\ IsSlice =>
          last.qs_limit
              = SumTotal(PySlice(CountsQuery(last.q),
                                 last.offset, last.offset + last.limit))

\* both instances hold a memoized sequence and the two sequences differ
C6_Witness ==
    /\ counts_[1].fetched /\ counts_[2].fetched
    /\ counts_[1].rows # counts_[2].rows
    /\ counts_[2].rows # <<>>

\* the rows of an instance's rowset, with the key they are counted under
RowsetOf(q) == IF Normalized(q) THEN MappingJoin(q) ELSE ViewRows(q)

\* C7: in both forms the GroupCount entry of the null key has total equal
\* to the number of rows whose group key is null, and a null key is never
\* an error.
C7_Orig ==
    last.n > 0 =>
        /\ \A i \in DOMAIN GroupCount(last.q) :
              GroupCount(last.q)[i].grouping_id = NULL =>
                  GroupCount(last.q)[i].total
                      = Len(SelectSeq(RowsetOf(last.q),
                                      LAMBDA r : r.grouping_id = NULL))
        /\ ~last.raised

\* the ordered rowset grouped_slice takes its range from
RowsetOrdered(q) == IF Normalized(q) THEN MappingOrdered(q) ELSE ViewOrdered(q)

\* the primary keys of the ordered rowset of an instance
OrderedIds(q) ==
    IF Normalized(q)
    THEN [i \in DOMAIN MappingOrdered(q) |-> MappingOrdered(q)[i].mapping_id]
    ELSE [i \in DOMAIN ViewOrdered(q) |-> ViewOrdered(q)[i].id]

\* C8: row_offset is the sum of 'total' over the first group_offset
\* GroupCount entries, row_count the sum over the entries at
\* [group_offset, group_offset+group_limit), and the rows fetched are those
\* at positions [row_offset, row_offset+row_count) of the ordered rowset.
C8_PrefixSums ==
    IsSlice =>
        /\ last.qs_offset = SumTotal(PySlice(GroupCount(last.q), 0, last.offset))
        /\ last.qs_limit = RequestedTotal
        /\ last.fetched
              = PySlice(OrderedIds(last.q),
                        last.qs_offset, last.qs_offset + last.qs_limit)

\* a page that skips a group of two rows and fetches rows
C8_Witness ==
    /\ IsSlice /\ last.offset >= 1
    /\ last.qs_offset >= 2
    /\ last.qs_limit >= 1
    /\ Len(last.fetched) = last.qs_limit

\* s is t with some elements left out
RECURSIVE IsSubsequence(_, _)
IsSubsequence(s, t) ==
    IF s = <<>> THEN TRUE
    ELSE IF t = <<>> THEN FALSE
    ELSE IF Head(s) = Head(t) THEN IsSubsequence(Tail(s), Tail(t))
    ELSE IsSubsequence(s, Tail(t))

\* the keys of the GroupCount entries the last call asked for
RequestedKeys ==
    LET page == PySlice(GroupCount(last.q), last.offset, last.offset + last.limit)
    IN [i \in DOMAIN page |-> page[i].grouping_id]

\* C9: each key of the mapping grouped_slice returns is the key of a
\* GroupCount entry at [group_offset, group_offset+group_limit), and the
\* keys keep the relative order of the GroupCount sequence.
C9_Orig ==
    (IsSlice /\ ~last.raised) =>
        IsSubsequence(KeysOf(last.groups), RequestedKeys)

\* the release is the one mapped last among the releases of its species
LatestOfItsSpecies(r) ==
    \A s \in ReleaseIds :
        release_mapping_history[s].uniprot_taxid
                = release_mapping_history[r].uniprot_taxid
            => release_mapping_history[s].time_mapped
                   <= release_mapping_history[r].time_mapped

\* the release of the history entry of a mapping that was mapped last
ReleaseOfLatest(m) ==
    LET i == CHOOSE i \in HistoryOf(m) :
                 \A j \in HistoryOf(m) : TimeMapped(j) <= TimeMapped(i)
    IN mapping_history[i].release_mapping_history

\* C10: every row MappingQuerySet.grouped_slice returns has, as release of
\* its most recently mapped history entry, the release mapped last among
\* those of its species; a row whose latest entry points to an older release
\* is not returned, and is not what makes the call raise.
C10_Eligibility ==
    (IsSlice /\ Normalized(last.q)) =>
        /\ \A i \in DOMAIN Flatten(last.groups) :
              LatestOfItsSpecies(ReleaseOfLatest(Flatten(last.groups)[i]))
        /\ last.raised =>
              \E i \in DOMAIN last.fetched : HistoryOf(last.fetched[i]) = {}

\* a page whose fetched rows hold a stale mapping and an eligible one
C10_Witness ==
    /\ IsSlice /\ Normalized(last.q) /\ ~last.raised
    /\ RowsIn(last.groups) >= 1
    /\ \E i \in DOMAIN last.fetched :
          /\ HistoryOf(last.fetched[i]) # {}
          /\ ~LatestOfItsSpecies(ReleaseOfLatest(last.fetched[i]))

\* the rows the last grouped_slice iterated over (sub_qs), with the key
\* each was ordered and counted under
FetchedRows ==
    PySlice(RowsetOrdered(last.q),
            last.qs_offset, last.qs_offset + last.qs_limit)

\* the list of key k of a returned mapping (empty when k is not a key)
ListOf(groups, k) ==
    Flatten(SelectSeq(groups, LAMBDA g : g.key = k))

\* no list of a returned mapping holds an element twice
NoRepeats(groups) ==
    \A g \in DOMAIN groups :
        \A i, j \in DOMAIN groups[g].rows :
            groups[g].rows[i] = groups[g].rows[j] => i = j

\* two fetched rows share group key and mapping_id
SameRowTwice(i, j) ==
    /\ i < j
    /\ FetchedRows[i].mapping_id = FetchedRows[j].mapping_id
    /\ FetchedRows[i].grouping_id = FetchedRows[j].grouping_id

RowsOfKey(q, k) ==
    Len(SelectSeq(RowsetOf(q), LAMBDA r : r.grouping_id = k))

\* C12: in both forms the 'total' of each GroupCount entry is the number of
\* rows of the rowset whose key is the entry's key, duplicates included, and
\* the totals add up to the number of rows grouped_slice(0, grouped_count)
\* iterates over, which is every row of the rowset.
C12_Orig ==
    last.n > 0 =>
        /\ \A i \in DOMAIN GroupCount(last.q) :
              GroupCount(last.q)[i].total
                  = RowsOfKey(last.q, GroupCount(last.q)[i].grouping_id)
        /\ SumTotal(GroupCount(last.q)) = Len(RowsetOf(last.q))
        /\ Len(SliceNow(last.q, 0, Len(GroupCount(last.q))).fetched)
              = Len(RowsetOf(last.q))

\* the group keys present in an instance's rowset
KeysPresent(q) ==
    {RowsetOf(q)[i].grouping_id : i \in DOMAIN RowsetOf(q)}

\* C13: grouped_count is the number of distinct group keys present in the
\* rowset, which is the number of GroupCount entries, and no two entries
\* carry the same key.
C13_DistinctKeys ==
    IsCount =>
        /\ last.count = Cardinality(KeysPresent(last.q))
        /\ last.count = Len(GroupCount(last.q))
        /\ \A i, j \in DOMAIN GroupCount(last.q) :
              GroupCount(last.q)[i].grouping_id
                      = GroupCount(last.q)[j].grouping_id => i = j

\* a grouped_count over a rowset with more rows than groups
C13_Witness ==
    /\ IsCount /\ last.count >= 2
    /\ Len(RowsetOf(last.q)) > last.count

\* C14: grouped_slice returns an empty mapping and does not raise when
\* group_limit is 0 or group_offset is at or past grouped_count, in both
\* forms.
C14_EdgeCases ==
    (IsSlice /\ (last.limit = 0 \/ last.offset >= Len(GroupCount(last.q)))) =>
        /\ last.groups = NoGroups
        /\ ~last.raised

\* a page of limit 0 past the first group of a rowset with two groups
C14_Witness ==
    /\ IsSlice /\ last.limit = 0 /\ last.offset = 1
    /\ Len(GroupCount(last.q)) >= 2
    /\ last.qs_offset >= 1

\* a page that starts past the last group of a rowset that has rows
C14_WitnessBeyond ==
    /\ IsSlice /\ last.limit >= 1
    /\ last.offset >= Len(GroupCount(last.q))
    /\ Len(RowsetOf(last.q)) >= 1

\* the first fetched row of each key is the first element of the key's list
FirstKept(groups, fetched) ==
    \A i \in DOMAIN fetched :
        (\A j \in 1..(i - 1) : mapping_view[fetched[j]] # mapping_view[fetched[i]])
            => /\ ListOf(groups, mapping_view[fetched[i]]) # <<>>
               /\ Head(ListOf(groups, mapping_view[fetched[i]])) = fetched[i]

\* C15: every row MappingViewQuerySet.grouped_slice fetches is in the
\* returned mapping exactly once, in the list of its own grouping_id, the
\* first row of each key included, and each list keeps the fetch order.
C15_DropsNothing ==
    (IsSlice /\ ~Normalized(last.q)) =>
        /\ Partition(last.groups,
                     [id \in {last.fetched[i] : i \in DOMAIN last.fetched} |->
                         mapping_view[id]])
        /\ FirstKept(last.groups, last.fetched)
        /\ \A g \in DOMAIN last.groups :
              IsSubsequence(last.groups[g].rows, last.fetched)

\* a page of the denormalized form with two groups, one of them of two rows
C15_Witness ==
    /\ IsSlice /\ ~Normalized(last.q)
    /\ Len(last.groups) = 2
    /\ \E g \in DOMAIN last.groups : Len(last.groups[g].rows) = 2

\* C19: when a row MappingQuerySet.grouped_slice fetches has no history
\* entry, the DoesNotExist of latest() leaves grouped_slice: the call raises
\* and returns nothing, and no returned row is one without history entry.
C19_LookupPropagates ==
    (IsSlice /\ Normalized(last.q)) =>
        /\ (\E i \in DOMAIN last.fetched : HistoryOf(last.fetched[i]) = {})
              <=> last.raised
        /\ last.raised => last.groups = NoGroups
        /\ \A i \in DOMAIN Flatten(last.groups) :
              HistoryOf(Flatten(last.groups)[i]) # {}

\* a page that fetches an eligible mapping and one without history entry
C19_Witness ==
    /\ IsSlice /\ Normalized(last.q) /\ last.raised
    /\ \E i, j \in DOMAIN last.fetched :
          /\ HistoryOf(last.fetched[i]) = {}
          /\ HistoryOf(last.fetched[j]) # {}
          /\ Eligible(last.fetched[j])

IsFacet(op) == last.op = op

\* the alignment_difference cells of the rowset of the last call
Differences == Values(last.q, "alignment_difference")

RECURSIVE CountIn(_, _)
\* the number of cells of a list that hold a value of S
CountIn(cells, S) ==
    IF cells = <<>> THEN 0
    ELSE (IF Head(cells) \cap S # {} THEN 1 ELSE 0) + CountIn(Tail(cells), S)

RECURSIVE CountNonNull(_)
CountNonNull(cells) ==
    IF cells = <<>> THEN 0
    ELSE (IF Head(cells) # None THEN 1 ELSE 0) + CountNonNull(Tail(cells))

Above5 == {v \in UNION Distinct(Differences) : v >= 6}

\* C17: divergences() returns [identical, small, large]: the rows with
\* difference 0, those with difference 1 to 5, those with difference above
\* 5; no row is counted twice, and the differences [0, 0, 3, 7, null] give
\* [2, 1, 1].
C17_Buckets ==
    IsFacet("divergences") =>
        /\ last.result = <<CountIn(Differences, {0}),
                           CountIn(Differences, 1..5),
                           CountIn(Differences, Above5)>>
        /\ last.result[1] + last.result[2] + last.result[3]
              = CountIn(Differences, {0} \cup 1..5 \cup Above5)
        /\ Differences = <<Cell(0), Cell(0), Cell(3), Cell(7), None>>
              => last.result = <<2, 1, 1>>

\* divergences() over the differences [0, 0, 3, 7, null]
C17_Witness ==
    /\ IsFacet("divergences")
    /\ Differences = <<Cell(0), Cell(0), Cell(3), Cell(7), None>>

\* divergences() over rows on either side of the boundary 5
C17_WitnessBoundary ==
    /\ IsFacet("divergences")
    /\ \E i, j \in DOMAIN Differences :
          Differences[i] = Cell(5) /\ Differences[j] = Cell(6)

\* C18: on an empty rowset no method raises: grouped_count is 0,
\* grouped_slice returns an empty mapping for every offset and limit,
\* statuses(), species(), chromosomes() and types() return empty lists,
\* divergences() returns zeros and has_patches() false.
C18_EmptyRowset ==
    (last.n > 0 /\ RowPks(last.q) = <<>>) =>
        /\ ~last.raised
        /\ IsCount => last.count = 0
        /\ IsSlice => last.groups = NoGroups
        /\ (\E op \in {"statuses", "species", "chromosomes", "types"} :
               IsFacet(op)) => last.result = <<>>
        /\ IsFacet("divergences") => last.result = <<0, 0, 0>>
        /\ IsFacet("has_patches") => ~last.patches

\* species() called on an empty mapping_view after another call
C18_Witness ==
    /\ IsFacet("species") /\ last.n >= 2
    /\ ~Normalized(last.q)
    /\ RowPks(last.q) = <<>>

\* a cache that holds descriptions which are not those of its table
Stale(cache, table) == DOMAIN cache # {} /\ cache # ReadAll(table)

\* C20: the vocabulary caches have a reset path: whenever a cache holds
\* descriptions its table no longer holds, the program has a step that
\* empties or refreshes it, so that the next lookup returns the current
\* description.
C20_Orig ==
    /\ \A c \in ModelClasses :
          /\ Stale(entry_type_[c], cv_entry_type)
                => ENABLED (Lookups /\ ~Stale(entry_type_[c], cv_entry_type)')
          /\ Stale(status_type_[c], cv_ue_status)
                => ENABLED (Lookups /\ ~Stale(status_type_[c], cv_ue_status)')


\* the chromosome cells of the rowset of the last call
Chromosomes == Values(last.q, "chromosome")

\* the cells of a list that hold a label, in the order of the list
Labels(cells) == SelectSeq(cells, LAMBDA c : c # None)

\* C21: chromosomes() returns the distinct chromosome labels of the rowset
\* sorted ascending, no label twice; the denormalized form leaves out null
\* and empty labels; a row with a null chromosome makes neither form fail.
C21_Orig ==
    IsFacet("chromosomes") =>
        /\ ~last.raised
        /\ \A i, j \in DOMAIN last.result :
              last.result[i] = last.result[j] => i = j
        /\ Normalized(last.q) =>
              Labels(last.result) = SortedCells(Distinct(Chromosomes) \ {None})
        /\ ~Normalized(last.q) =>
              last.result = SortedCells(Distinct(Chromosomes)
                                            \ {None, Cell(EmptyLabel)})

\* the same statement about MappingViewQuerySet.chromosomes() alone
C21_ViewForm == (IsFacet("chromosomes") /\ ~Normalized(last.q)) => C21_Orig

\* chromosomes() of the denormalized form over a null, an empty and two
\* other labels
C21_ViewWitness ==
    /\ IsFacet("chromosomes") /\ ~Normalized(last.q)
    /\ Distinct(Chromosomes) = {None, Cell(EmptyLabel), Cell(1), Cell(2)}


\* a request is answered in this step with the given status: the step is
\* a handler's and leaves no request at a later statement
Answers(handler, status) ==
    /\ UNCHANGED cv_ue_status
    /\ \A r \in Requests : pc'[r] # pc[r] => pc'[r] = Idle
    /\ response'.handler = handler
    /\ response'.status = status

\* the records of the UniProt entry and label the response is about
AnsweredLabels(table) == EntryLabels(table, response'.uniprot, response'.id)

\* no (uniprot entry, label) pair has two UeUnmappedEntryLabel records
AtMostOneLabel ==
    \A uniprot \in UniprotIds, label_id \in LabelIds :
        Cardinality(EntryLabels(ue_unmapped_entry_label, uniprot, label_id)) <= 1

\* C22: a POST of a label that is attached is answered 204 and creates no
\* record, so that after any interleaving of AddDeleteLabel.post and
\* AddDeleteLabel.delete requests a (uniprot entry, label) pair has at most
\* one record; a DELETE answered 204 leaves no record of the pair, and one
\* answered 404 for a pair without record leaves the table unchanged.
C22_Orig ==
    [][/\ AtMostOneLabel'
       /\ Answers("AddDeleteLabel.post", 204) =>
             /\ AnsweredLabels(ue_unmapped_entry_label) # {}
             /\ UNCHANGED ue_unmapped_entry_label
       /\ Answers("AddDeleteLabel.delete", 204) =>
             AnsweredLabels(ue_unmapped_entry_label') = {}
       /\ Answers("AddDeleteLabel.delete", 404) =>
             UNCHANGED ue_unmapped_entry_label]_vars

\* the three statements about the answers, without the bound on the
\* records of a pair
C22_Answers ==
    [][/\ Answers("AddDeleteLabel.post", 204) =>
             /\ AnsweredLabels(ue_unmapped_entry_label) # {}
             /\ UNCHANGED ue_unmapped_entry_label
       /\ Answers("AddDeleteLabel.delete", 204) =>
             AnsweredLabels(ue_unmapped_entry_label') = {}
       /\ Answers("AddDeleteLabel.delete", 404) =>
             UNCHANGED ue_unmapped_entry_label]_vars


\* the comments that are deleted
Deleted ==
    {id \in DOMAIN ue_unmapped_entry_comment :
        ue_unmapped_entry_comment[id].deleted}

\* the response is about comment id, asked for through a mapping_view row of
\* the comment's UniProt entry
AnsweredComment(id) ==
    /\ response'.id = id
    /\ response'.uniprot = ue_unmapped_entry_comment[id].uniprot

\* C23: once EditDeleteComment.delete has set the deleted flag of a comment
\* the flag stays true, its text and time_stamp no longer change,
\* AddGetComments.get does not list it, a put that carries a text is
\* answered 400 'Cannot edit deleted comment', and a further delete is
\* answered 204.
C23_Orig ==
    [][\A id \in Deleted :
          /\ ue_unmapped_entry_comment'[id] = ue_unmapped_entry_comment[id]
          /\ Answers("AddGetComments.get", 200) =>
                \A i \in DOMAIN response'.comments : response'.comments[i] # id
          /\ (/\ \E status \in {200, 400} :
                    Answers("EditDeleteComment.put", status)
              /\ AnsweredComment(id)
              /\ response'.error # "Text not specified") =>
                /\ response'.status = 400
                /\ response'.error = "Cannot edit deleted comment"
          /\ (/\ \E status \in {204, 400} :
                    Answers("EditDeleteComment.delete", status)
              /\ AnsweredComment(id)) =>
                response'.status = 204]_vars


\* StatusChange.put is answered 201 or 204 in this step
StatusAnswered ==
    \E status \in {201, 204} : Answers("StatusChange.put", status)

\* no two consecutive status records of one UniProt entry have one status
NoRepeatedStatus(table) ==
    \A uniprot \in UniprotIds :
        LET history == EntryStatuses(table, uniprot)
        IN \A i \in 1..(Len(history) - 1) :
              history[i].status # history[i + 1].status

\* C24: when StatusChange.put for mapping view v and status s is answered
\* 201 or 204, v.status is s.id and the latest status record of v's UniProt
\* entry has status s; an answer 204 adds no status record, and no two
\* consecutive status records of one UniProt entry carry one status, also
\* when the changes come through different mapping views of one entry.
C24_Orig ==
    [][/\ StatusAnswered =>
             /\ fields'[response'.mapping_view_id]["status"] = Cell(response'.id)
             /\ LatestStatus(EntryStatuses(ue_unmapped_entry_status',
                                           response'.uniprot)).status
                   = response'.id
       /\ Answers("StatusChange.put", 204) => UNCHANGED ue_unmapped_entry_status
       /\ NoRepeatedStatus(ue_unmapped_entry_status')]_vars

\* the claim without 'v.status is s.id'
C24_History ==
    [][/\ StatusAnswered =>
             LatestStatus(EntryStatuses(ue_unmapped_entry_status',
                                        response'.uniprot)).status
                 = response'.id
       /\ Answers("StatusChange.put", 204) => UNCHANGED ue_unmapped_entry_status
       /\ NoRepeatedStatus(ue_unmapped_entry_status')]_vars


\* the mapping_id cell of the row MappingView.statuses was called on
ViewMapping == fields[last.identity]["mapping_id"]

\* the list the statuses() methods are to return for a mapping: an entry
\* for every status record, earliest first
ExpectedStatuses(mapping_id, usernames) ==
    LET status_set == StatusSet(mapping_id)
    IN [i \in DOMAIN status_set |->
          [status |-> cv_ue_status[status_set[i].status],
           time_stamp |-> status_set[i].time_stamp,
           user |-> IF usernames THEN status_set[i].user_stamp ELSE None]]

\* C25: MappingView.statuses(usernames) returns an entry for every status
\* record of the mapping of the row, in ascending order of time_stamp, with
\* the user of the record when usernames is true and None otherwise; the
\* list is the one Mapping.statuses(usernames) returns for that mapping, and
\* it is empty for a row without mapping.
C25_Orig ==
    last.op = "MappingView.statuses" =>
        /\ ~last.raised
        /\ IF ViewMapping # None /\ ViewMapping \subseteq mapping
           THEN /\ last.result
                      = ExpectedStatuses(ValueOf(ViewMapping), last.usernames)
                /\ last.result
                      = Mapping_statuses(ValueOf(ViewMapping),
                                         last.usernames).result
           ELSE last.result = <<>>

\* the same list is what Mapping.statuses returns
C25_MappingForm ==
    last.op = "Mapping.statuses" =>
        /\ ~last.raised
        /\ last.result = ExpectedStatuses(last.identity, last.usernames)

\* Mapping.statuses(True) on a mapping with two status records, one of them
\* stamped by a user
C25_MappingWitness ==
    /\ last.op = "Mapping.statuses" /\ last.usernames
    /\ Len(last.result) = 2
    /\ last.result[1].user = None /\ last.result[2].user # None

\* what MappingView.statuses returns: the empty list
C25_ViewEmpty == last.op = "MappingView.statuses" => last.result = <<>>

=============================================================================
